---- MODULE Spec2Model ----
(***************************************************************************)
(* The hierarchical bounded ray marcher of the voxel engine:               *)
(* ddaExit (raymarching/dda.glsl), computeBounds / evaluateOctaves         *)
(* (raymarching/bounds.glsl) and hierarchicalMarch / canAscendLOD / Miss   *)
(* (raymarching/hierarchical.glsl).                                        *)
(*                                                                         *)
(* Numbers.  Positions, lengths and ray parameters are held as integer     *)
(* counts of 1e-4 (UNIT counts are one world unit, NUDGE counts are the    *)
(* 1e-3 nudge of ddaExit); direction components are held in tenths         *)
(* (DIR_DEN).  A quotient or product that does not fall on the grid is     *)
(* rounded down, which stands for the rounding of the shader's floats.     *)
(* Densities are held as integer counts of 2^-TOTAL_OCTAVES, so that the   *)
(* amplitude 0.5^(i+1) of octave i is the integer 2^(TOTAL_OCTAVES-1-i).   *)
(***************************************************************************)
EXTENDS Integers, Sequences, FiniteSets, TLC

VARIABLES
    cfg,      \* the configuration constants MAX_LOD, MAX_STEPS, MAX_DISTANCE
    world,    \* which noise field noise3D evaluates
    ro,       \* ray origin (argument of hierarchicalMarch)
    rd,       \* ray direction (argument of hierarchicalMarch)
    pos,      \* local pos
    lod,      \* local lod
    step,     \* loop counter step
    pc,       \* "march" (at the loop head), "exit" (left the loop), "done";
              \* before the dispatch "setup", and "failed" (no pipeline)
    h,        \* the returned Hit record
    cell,     \* cell computed by the last iteration
    bounds,   \* bounds computed by the last iteration
    branch,   \* branch taken by the last iteration
    travel,   \* sum of the ray parameters (tExit + 1e-3) of all ddaExit calls
    iters,    \* number of loop bodies executed
    prevPos,  \* pos at the start of the last iteration
    prevLod,  \* lod at the start of the last iteration
    other,    \* the locals of a second invocation with the same arguments
    app       \* the host application: window, camera, swapchain, fence

vars ==
    <<cfg, world, ro, rd, pos, lod, step, pc, h, cell, bounds, branch, travel, iters,
      prevPos, prevLod, other, app>>

----------------------------------------------------------------------------
(* Constants of the source *)

TOTAL_OCTAVES == 6

\* 1e-3, the nudge of ddaExit, is 1 / NUDGE_DEN.
NUDGE_DEN == 1000

\* Direction components are counted in tenths, lengths in counts of 1e-4.
DIR_DEN == NUDGE_DEN \div 100
UNIT == NUDGE_DEN * DIR_DEN
NUDGE == UNIT \div NUDGE_DEN

\* 1e-6, the divisor clamp of ddaExit, is 1 / CLAMP_DEN.
CLAMP_DEN == 1000000

\* The occupancy threshold, in density counts.
BLOCK_THRESHOLD == 0

\* The configuration documented for the renderer.
DOC_MAX_LOD == 7
DOC_MAX_STEPS == 200
DOC_MAX_DISTANCE == 50000

\* A small configuration, in which the step budget and the distance limit
\* are both within reach of a ray.
SMALL_MAX_LOD == 2
SMALL_MAX_STEPS == 24
SMALL_MAX_DISTANCE == 12

MAX_LOD == cfg.maxLod
MAX_STEPS == cfg.maxSteps
MAX_DISTANCE == cfg.maxDistance

DocConfig ==
    [maxLod |-> DOC_MAX_LOD, maxSteps |-> DOC_MAX_STEPS, maxDistance |-> DOC_MAX_DISTANCE]

SmallConfig ==
    [maxLod |-> SMALL_MAX_LOD, maxSteps |-> SMALL_MAX_STEPS,
     maxDistance |-> SMALL_MAX_DISTANCE]

----------------------------------------------------------------------------
(* Vector arithmetic *)

Axes == {"x", "y", "z"}

vec3(x, y, z) == [x |-> x, y |-> y, z |-> z]

Zero3 == vec3(0, 0, 0)

Abs(a) == IF a < 0 THEN -a ELSE a

Min2(a, b) == IF a < b THEN a ELSE b

Max2(a, b) == IF a > b THEN a ELSE b

\* Squares of lengths do not fit the 32-bit integers of TLC: they are
\* held as three digits <<hi, mid, lo>> to the base LIMB.
LIMB == 2 ^ 15

\* x * x, for 0 <= x < 2^30.
Sq3(x) ==
    LET x1 == x \div LIMB
        x0 == x % LIMB
        mid == 2 * x1 * x0 + (x0 * x0) \div LIMB
    IN  <<x1 * x1 + mid \div LIMB, mid % LIMB, (x0 * x0) % LIMB>>

Add3(u, v) ==
    LET lo == u[3] + v[3]
        mid == u[2] + v[2] + lo \div LIMB
    IN  <<u[1] + v[1] + mid \div LIMB, mid % LIMB, lo % LIMB>>

Leq3(u, v) ==
    \/ u[1] < v[1]
    \/ u[1] = v[1] /\ u[2] < v[2]
    \/ u[1] = v[1] /\ u[2] = v[2] /\ u[3] <= v[3]

\* The integer square root of n, one binary digit at a time: r is the root so
\* far, b the digit tried.
RECURSIVE SqrtBits(_, _, _)
SqrtBits(n, r, b) ==
    IF b = 0 THEN r
    ELSE IF Leq3(Sq3(r + b), n)
         THEN SqrtBits(n, r + b, b \div 2)
         ELSE SqrtBits(n, r, b \div 2)

\* dot(v, v)
Dot3(v) == Add3(Add3(Sq3(Abs(v.x)), Sq3(Abs(v.y))), Sq3(Abs(v.z)))

\* length(v), in counts, rounded down.
length(v) == CHOOSE r \in {SqrtBits(n, 0, 2 ^ 29) : n \in {Dot3(v)}} : TRUE

\* float(1 << lod), in counts.
CellSize(l) == (2 ^ l) * UNIT

\* ivec3(floor(p / cellSize))
CellOf(p, l) == [a \in Axes |-> p[a] \div CellSize(l)]

----------------------------------------------------------------------------
(* world/noise.glsl and world/world.glsl *)

\* The noise fields of the model.  Each is a deterministic
\* function of the lattice point with values in [-1, 1]:
\*   sky     -1 everywhere: every density is below the threshold;
\*   ground  +1 below the lattice height world.h and -1 from it upwards: the
\*           full density is above the threshold exactly at the points with
\*           y < world.h (empty above the height, solid below it);
\*   tie     0 everywhere except +1 on the lattice planes y = 0 (mod 2^5):
\*           the density at the centre of most LOD-0 cells equals the
\*           threshold exactly;
\*   pit     0 at every octave but the last, which is -1 everywhere: every
\*           coarse cell is uncertain and every LOD-0 cell is just below the
\*           threshold.
GROUND_SCENARIO == 64
GROUND_SMALL == 5
GROUND_LEDGE == 7

Sky == [kind |-> "sky", h |-> 0]

Ground(height) == [kind |-> "ground", h |-> height]

Tie == [kind |-> "tie", h |-> 0]

Pit == [kind |-> "pit", h |-> 0]

\* noise3D(p * f) for f = 2^i: the noise value of the lattice point floor(p * f).
noise3D(p, i) ==
    LET q == [a \in Axes |->
                 (p[a] \div UNIT) * (2 ^ i) + ((p[a] % UNIT) * (2 ^ i)) \div UNIT]
    IN  CASE world.kind = "sky" -> -1
          [] world.kind = "ground" -> IF q.y < world.h THEN 1 ELSE -1
          [] world.kind = "pit" -> IF i = TOTAL_OCTAVES - 1 THEN -1 ELSE 0
          [] OTHER -> IF q.y % (2 ^ (TOTAL_OCTAVES - 1)) = 0 THEN 1 ELSE 0

\* The amplitude a of octave i in evaluateOctaves: 0.5^(i+1).
Amplitude(i) == 2 ^ (TOTAL_OCTAVES - 1 - i)

\* sumAmplitudes(fromOctave, toOctave): the geometric sum of the amplitudes
\* of the octaves fromOctave .. toOctave-1.
sumAmplitudes(fromOctave, toOctave) ==
    IF fromOctave >= toOctave THEN 0
    ELSE 2 ^ (TOTAL_OCTAVES - fromOctave) - 2 ^ (TOTAL_OCTAVES - toOctave)

----------------------------------------------------------------------------
(* raymarching/bounds.glsl *)

RECURSIVE OctaveSum(_, _, _)
OctaveSum(p, i, octaves) ==
    IF i >= octaves THEN 0
    ELSE Amplitude(i) * noise3D(p, i) + OctaveSum(p, i + 1, octaves)

evaluateOctaves(p, octaves) == OctaveSum(p, 0, octaves)

\* (vec3(cell) + 0.5) * cellSize
CellCenter(c, l) == [a \in Axes |-> c[a] * CellSize(l) + CellSize(l) \div 2]

\* computeBounds with one octave too few evaluated.
computeBounds_OneOctaveShort(c, l) ==
    LET center == CellCenter(c, l)
        evalOctaves == Max2(1, TOTAL_OCTAVES - l - 1)
        baseValue == evaluateOctaves(center, evalOctaves)
        maxDeviation == sumAmplitudes(evalOctaves, TOTAL_OCTAVES)
    IN  [min |-> baseValue - maxDeviation, max |-> baseValue + maxDeviation]

\* computeBounds without the lower limit of one evaluated octave.
computeBounds_NoClamp(c, l) ==
    LET center == CellCenter(c, l)
        evalOctaves == TOTAL_OCTAVES - l
        baseValue == evaluateOctaves(center, evalOctaves)
        maxDeviation == sumAmplitudes(evalOctaves, TOTAL_OCTAVES)
    IN  [min |-> baseValue - maxDeviation, max |-> baseValue + maxDeviation]

\* computeBounds with the last evaluated octave also in the deviation.
computeBounds_Overlap(c, l) ==
    LET center == CellCenter(c, l)
        evalOctaves == Max2(1, TOTAL_OCTAVES - l)
        baseValue == evaluateOctaves(center, evalOctaves)
        maxDeviation == sumAmplitudes(evalOctaves - 1, TOTAL_OCTAVES)
    IN  [min |-> baseValue - maxDeviation, max |-> baseValue + maxDeviation]

computeBounds(c, l) ==
    LET center == CellCenter(c, l)
        evalOctaves == Max2(1, TOTAL_OCTAVES - l)
        baseValue == evaluateOctaves(center, evalOctaves)
        maxDeviation == sumAmplitudes(evalOctaves, TOTAL_OCTAVES)
    IN  [min |-> baseValue - maxDeviation, max |-> baseValue + maxDeviation]

\* worldDensity(pos): the full fractal sum at the point.
worldDensity(p) == evaluateOctaves(p, TOTAL_OCTAVES)

----------------------------------------------------------------------------
(* raymarching/dda.glsl *)

\* abs(rd) without the clamp.
Divisor_NoClamp(d, a) == Abs(d[a]) * (CLAMP_DEN \div DIR_DEN)

\* max(abs(rd), 1e-6), in counts of 1e-6.
Divisor(d, a) == Max2(Abs(d[a]) * (CLAMP_DEN \div DIR_DEN), 1)

\* One component of tMax: the distance to the face the ray heads for, divided
\* by max(abs(rd), 1e-6).  A direction component is a multiple of 0.1, so the
\* clamp acts exactly when it is zero, and the quotient is then the distance
\* times 1e6 (kept within 2^30 counts: it is saturated above every quotient a
\* non-zero component can give).
TMaxAxis(p, d, c, size, a) ==
    LET cellMin == c[a] * size
        cellMax == cellMin + size
        num == IF d[a] > 0 THEN cellMax - p[a] ELSE p[a] - cellMin
        dv == Divisor(d, a)
    IN  IF dv < CLAMP_DEN \div DIR_DEN
        THEN (Min2(num, (2 ^ 30) \div CLAMP_DEN) * CLAMP_DEN) \div dv
        ELSE (num * DIR_DEN) \div (dv \div (CLAMP_DEN \div DIR_DEN))

TExit(p, d, c, size) ==
    Min2(Min2(TMaxAxis(p, d, c, size, "x"), TMaxAxis(p, d, c, size, "y")),
         TMaxAxis(p, d, c, size, "z"))

\* ddaExit without the nudge.
ddaExit_NoNudge(p, d, c, size) ==
    [a \in Axes |-> p[a] + (d[a] * TExit(p, d, c, size)) \div DIR_DEN]

\* pos + rd * (tExit + 1e-3)
ddaExit(p, d, c, size) ==
    [a \in Axes |-> p[a] + (d[a] * (TExit(p, d, c, size) + NUDGE)) \div DIR_DEN]

----------------------------------------------------------------------------
(* raymarching/hierarchical.glsl *)

Miss == [hit |-> 0, pos |-> Zero3, cell |-> Zero3, distance |-> MAX_DISTANCE * UNIT]

\* A Hit whose distance is measured from the world origin.
Hit_DistanceFromZero(p, c) == [hit |-> 1, pos |-> p, cell |-> c, distance |-> length(p)]

Hit(p, c) == [hit |-> 1, pos |-> p, cell |-> c, distance |-> length([a \in Axes |-> p[a] - ro[a]])]

\* canAscendLOD without the test of MAX_LOD.
canAscendLOD_NoCap(p, l) ==
    LET size == CellSize(l + 1)
    IN  \A a \in Axes :
            /\ 5 * (p[a] % size) > size
            /\ 5 * (p[a] % size) < 4 * size

\* fract(pos / cellSize) lies strictly between 0.2 and 0.8 on every axis.
canAscendLOD(p, l) ==
    IF l >= MAX_LOD THEN FALSE
    ELSE LET size == CellSize(l + 1)
         IN  \A a \in Axes :
                 /\ 5 * (p[a] % size) > size
                 /\ 5 * (p[a] % size) < 4 * size

\* LoopTail with the break taken only beyond twice the range.
LoopTail_BreakLate(p) ==
    IF length([a \in Axes |-> p[a] - ro[a]]) > 2 * MAX_DISTANCE * UNIT
    THEN pc' = "exit" /\ step' = step
    ELSE pc' = "march" /\ step' = step + 1

\* LoopTail without the break.
LoopTail_NoBreak(p) == pc' = "march" /\ step' = step + 1

\* The end of one loop iteration that did not return: the break test of the
\* distance, then ++step.
LoopTail(p) ==
    IF length([a \in Axes |-> p[a] - ro[a]]) > MAX_DISTANCE * UNIT
    THEN pc' = "exit" /\ step' = step
    ELSE pc' = "march" /\ step' = step + 1

\* The head of one loop iteration: the loop condition holds (and the shift
\* 1 << lod of the body is defined).
InLoop == pc = "march" /\ step < MAX_STEPS /\ lod >= 0

CurCell == CellOf(pos, lod)

CurBounds == computeBounds(CurCell, lod)

IsSkip(b) == b.max < BLOCK_THRESHOLD

\* IsSolid with a bound that touches the threshold counted as solid.
IsSolid_Inclusive(b) == ~IsSkip(b) /\ b.min >= BLOCK_THRESHOLD

IsSolid(b) == ~IsSkip(b) /\ b.min > BLOCK_THRESHOLD

\* IsUncertain without the test for a cell below the threshold.
IsUncertain_NotSolid(b) == ~(b.min > BLOCK_THRESHOLD)

IsUncertain(b) == ~IsSkip(b) /\ ~(b.min > BLOCK_THRESHOLD)

\* Skip with the ascent decided at the position before the step.
Skip_AscendFirst ==
    /\ InLoop
    /\ IsSkip(CurBounds)
    /\ pos' = ddaExit(pos, rd, CurCell, CellSize(lod))
    /\ lod' = IF canAscendLOD(pos, lod) THEN lod + 1 ELSE lod
    /\ travel' = travel + TExit(pos, rd, CurCell, CellSize(lod)) + NUDGE
    /\ iters' = iters + 1 /\ prevPos' = pos /\ prevLod' = lod
    /\ cell' = CurCell /\ bounds' = CurBounds /\ branch' = "skip"
    /\ LoopTail(pos')
    /\ UNCHANGED <<cfg, world, ro, rd, h, other, app>>

\* bounds.max < BLOCK_THRESHOLD: step across the cell, then try to ascend.
Skip ==
    /\ InLoop
    /\ IsSkip(CurBounds)
    /\ pos' = ddaExit(pos, rd, CurCell, CellSize(lod))
    /\ lod' = IF canAscendLOD(pos', lod) THEN lod + 1 ELSE lod
    /\ travel' = travel + TExit(pos, rd, CurCell, CellSize(lod)) + NUDGE
    /\ iters' = iters + 1 /\ prevPos' = pos /\ prevLod' = lod
    /\ cell' = CurCell /\ bounds' = CurBounds /\ branch' = "skip"
    /\ LoopTail(pos')
    /\ UNCHANGED <<cfg, world, ro, rd, h, other, app>>

\* SolidHit at any lod.
SolidHit_AnyLod ==
    /\ InLoop
    /\ IsSolid(CurBounds)
    /\ h' = Hit(pos, CurCell)
    /\ pc' = "done"
    /\ cell' = CurCell /\ bounds' = CurBounds /\ branch' = "solid"
    /\ iters' = iters + 1 /\ prevPos' = pos /\ prevLod' = lod
    /\ UNCHANGED <<cfg, world, ro, rd, pos, lod, step, travel, other, app>>

\* bounds.min > BLOCK_THRESHOLD at lod 0: return the Hit.
SolidHit ==
    /\ InLoop
    /\ IsSolid(CurBounds)
    /\ lod = 0
    /\ h' = Hit(pos, CurCell)
    /\ pc' = "done"
    /\ cell' = CurCell /\ bounds' = CurBounds /\ branch' = "solid"
    /\ iters' = iters + 1 /\ prevPos' = pos /\ prevLod' = lod
    /\ UNCHANGED <<cfg, world, ro, rd, pos, lod, step, travel, other, app>>

\* SolidDescend that goes to the finest level at once.
SolidDescend_ToFinest ==
    /\ InLoop
    /\ IsSolid(CurBounds)
    /\ lod # 0
    /\ lod' = 0
    /\ cell' = CurCell /\ bounds' = CurBounds /\ branch' = "solid"
    /\ LoopTail(pos)
    /\ iters' = iters + 1 /\ prevPos' = pos /\ prevLod' = lod
    /\ UNCHANGED <<cfg, world, ro, rd, pos, h, travel, other, app>>

\* bounds.min > BLOCK_THRESHOLD at lod > 0: lod--.
SolidDescend ==
    /\ InLoop
    /\ IsSolid(CurBounds)
    /\ lod # 0
    /\ lod' = lod - 1
    /\ cell' = CurCell /\ bounds' = CurBounds /\ branch' = "solid"
    /\ LoopTail(pos)
    /\ iters' = iters + 1 /\ prevPos' = pos /\ prevLod' = lod
    /\ UNCHANGED <<cfg, world, ro, rd, pos, h, travel, other, app>>

\* Neither, at lod 0, worldDensity(pos) > BLOCK_THRESHOLD: return the Hit.
UncertainHit ==
    /\ InLoop
    /\ IsUncertain(CurBounds)
    /\ lod = 0
    /\ worldDensity(pos) > BLOCK_THRESHOLD
    /\ h' = Hit(pos, CurCell)
    /\ pc' = "done"
    /\ cell' = CurCell /\ bounds' = CurBounds /\ branch' = "uncertain"
    /\ iters' = iters + 1 /\ prevPos' = pos /\ prevLod' = lod
    /\ UNCHANGED <<cfg, world, ro, rd, pos, lod, step, travel, other, app>>

\* Neither, at lod 0, worldDensity(pos) <= BLOCK_THRESHOLD: step across the
\* unit cell.
UncertainAdvance ==
    /\ InLoop
    /\ IsUncertain(CurBounds)
    /\ lod = 0
    /\ ~(worldDensity(pos) > BLOCK_THRESHOLD)
    /\ pos' = ddaExit(pos, rd, CurCell, UNIT)
    /\ travel' = travel + TExit(pos, rd, CurCell, UNIT) + NUDGE
    /\ iters' = iters + 1 /\ prevPos' = pos /\ prevLod' = lod
    /\ cell' = CurCell /\ bounds' = CurBounds /\ branch' = "uncertain"
    /\ LoopTail(pos')
    /\ UNCHANGED <<cfg, world, ro, rd, lod, h, other, app>>

\* UncertainDescend that also steps across the cell.
UncertainDescend_Stepping ==
    /\ InLoop
    /\ IsUncertain(CurBounds)
    /\ lod # 0
    /\ lod' = lod - 1
    /\ pos' = ddaExit(pos, rd, CurCell, CellSize(lod))
    /\ travel' = travel + TExit(pos, rd, CurCell, CellSize(lod)) + NUDGE
    /\ cell' = CurCell /\ bounds' = CurBounds /\ branch' = "uncertain"
    /\ LoopTail(pos')
    /\ iters' = iters + 1 /\ prevPos' = pos /\ prevLod' = lod
    /\ UNCHANGED <<cfg, world, ro, rd, h, other, app>>

\* Neither, at lod > 0: lod--.
UncertainDescend ==
    /\ InLoop
    /\ IsUncertain(CurBounds)
    /\ lod # 0
    /\ lod' = lod - 1
    /\ cell' = CurCell /\ bounds' = CurBounds /\ branch' = "uncertain"
    /\ LoopTail(pos)
    /\ iters' = iters + 1 /\ prevPos' = pos /\ prevLod' = lod
    /\ UNCHANGED <<cfg, world, ro, rd, pos, h, travel, other, app>>

\* The loop ended by its condition or by the break: return Miss().
ReturnMiss ==
    /\ pc = "exit" \/ (pc = "march" /\ step >= MAX_STEPS)
    /\ h' = Miss
    /\ pc' = "done"
    /\ UNCHANGED <<cfg, world, ro, rd, pos, lod, step, cell, bounds, branch, travel, iters,
                   prevPos, prevLod, other, app>>

\* The locals of the invocation that is running.
Locals ==
    [pos |-> pos, lod |-> lod, step |-> step, pc |-> pc, h |-> h, cell |-> cell,
     bounds |-> bounds, branch |-> branch, travel |-> travel, iters |-> iters,
     prevPos |-> prevPos, prevLod |-> prevLod]

\* Switch with lod held in one place for both invocations.
Switch_SharedLod ==
    /\ other' = Locals
    /\ pos' = other.pos /\ lod' = lod /\ step' = other.step /\ pc' = other.pc
    /\ h' = other.h /\ cell' = other.cell /\ bounds' = other.bounds
    /\ branch' = other.branch /\ travel' = other.travel /\ iters' = other.iters
    /\ prevPos' = other.prevPos /\ prevLod' = other.prevLod
    /\ UNCHANGED <<cfg, world, ro, rd, app>>

\* The invocations of one dispatch run interleaved in any order: the running
\* invocation is suspended with its locals and the other one resumes with its
\* own.  Every variable of hierarchicalMarch is a local of the invocation.
Switch ==
    /\ other' = Locals
    /\ pos' = other.pos /\ lod' = other.lod /\ step' = other.step /\ pc' = other.pc
    /\ h' = other.h /\ cell' = other.cell /\ bounds' = other.bounds
    /\ branch' = other.branch /\ travel' = other.travel /\ iters' = other.iters
    /\ prevPos' = other.prevPos /\ prevLod' = other.prevLod
    /\ UNCHANGED <<cfg, world, ro, rd, app>>

Next ==
    \/ Skip
    \/ SolidHit
    \/ SolidDescend
    \/ UncertainHit
    \/ UncertainAdvance
    \/ UncertainDescend
    \/ ReturnMiss

----------------------------------------------------------------------------
(* The rays and worlds of the model *)

Ray(o, d) == [ro |-> o, rd |-> d]

\* Unit directions, in tenths: the axes, (0.6, 0.8, 0) and its opposite, and
\* (0, -0.6, 0.8).
DOWN == vec3(0, -DIR_DEN, 0)
UP == vec3(0, DIR_DEN, 0)
EAST == vec3(DIR_DEN, 0, 0)
DIAG == vec3(6, 8, 0)
NDIAG == vec3(-6, -8, 0)
SLANT == vec3(0, -6, 8)

Directions == {DOWN, UP, EAST, DIAG, NDIAG, SLANT}

\* The point (x, y, z) / 10 of the world.
At(x, y, z) == vec3(x * (UNIT \div 10), y * (UNIT \div 10), z * (UNIT \div 10))

\* Origins on a cell face in x and z, at cell centres, off-centre, and just
\* above the surface of the higher ground.
SmallOrigins ==
    {At(0, 90, 0), At(5, 95, 5), At(5, 175, 5), At(13, 27, 17),
     At(5, -25, 5), At(25, 5, 25), At(25, 31, 25), At(25, 25, 25), At(5, 71, 25),
     At(20, 71, 25)}

SmallWorlds == {Sky, Ground(GROUND_SMALL), Ground(GROUND_LEDGE), Tie, Pit}

----------------------------------------------------------------------------
(* The host: render/vulkan/app/vulkan_app_impl.hpp and
   render/vulkan/compute/compute_commands.cpp *)

\* swapchainImages.size()
NUM_IMAGES == 2

Images == 0 .. NUM_IMAGES - 1

\* No image, no submission: the index past the last image.
NONE == NUM_IMAGES

\* Camera coordinates and yaw are kept within 0 .. CAM_MAX and
\* -CAM_MAX .. CAM_MAX: a main-loop iteration that would leave the range is
\* not taken.
CAM_MAX == 1

\* const float limit = 1.55334f, in steps of the pitch.
PITCH_LIMIT == 1

\* float speed = 10.0f over one dt, and its multiple with LEFT_CONTROL held.
SPEED == 1
SPEED_FACTOR == 3

\* fpsTimeAccum >= 0.5, in main-loop iterations.
FPS_WINDOW == 2

\* The results of vkAcquireNextImageKHR and vkQueuePresentKHR; "VK_ERROR" is
\* any other error code.
Results == {"VK_SUCCESS", "VK_SUBOPTIMAL_KHR", "VK_ERROR_OUT_OF_DATE_KHR", "VK_ERROR"}

\* What glfwPollEvents leaves to be read by one main-loop iteration: the
\* Escape key, the focus of the window, the left mouse button, the cursor
\* position and the movement keys held.
CursorPositions == {[x |-> 0, y |-> 0], [x |-> 1, y |-> 0], [x |-> 0, y |-> 1]}

KeySets == {{}, {"W"}, {"S", "D"}, {"A", "SPACE"}, {"SHIFT", "W", "LEFT_CONTROL"}}

Buttons ==
    {[escape |-> FALSE, focused |-> TRUE, click |-> FALSE],
     [escape |-> TRUE, focused |-> TRUE, click |-> FALSE],
     [escape |-> FALSE, focused |-> TRUE, click |-> TRUE],
     [escape |-> FALSE, focused |-> FALSE, click |-> TRUE],
     [escape |-> TRUE, focused |-> TRUE, click |-> TRUE]}

Input(b, c, k) == [key |-> b, cursor |-> c, keys |-> k]

Inputs == {Input(b, c, k) : b \in Buttons, c \in CursorPositions, k \in KeySets}

\* The inputs of a user who leaves mouse and movement keys alone.
QuietInputs == {Input(b, [x |-> 0, y |-> 0], {}) : b \in Buttons}

\* The application after initWindow and initVulkan: the cursor is locked
\* (initWindow), no image has been used (createImageViews), the camera is at
\* its start with firstMouse set (initCamera), the fence is created signalled
\* (createSyncObjects).  at is the place of the main thread: "loop" at the
\* head of the main loop, "wait" in vkWaitForFences of drawFrame, "closed"
\* after the loop, "failed" after an exception.
AppStart ==
    [at |-> "loop",
     cursorLocked |-> TRUE,
     inputMode |-> "GLFW_CURSOR_DISABLED",
     key |-> [escape |-> FALSE, focused |-> TRUE, click |-> FALSE],
     updated |-> FALSE,
     firstMouse |-> TRUE,
     lastMouse |-> [x |-> 0, y |-> 0],
     cameraPos |-> [x |-> 0, y |-> 0, z |-> 0],
     cameraYaw |-> 0,
     cameraPitch |-> 0,
     cameraData |-> [camPos |-> [x |-> 0, y |-> 0, z |-> 0], yaw |-> 0, pitch |-> 0],
     fpsTimeAccum |-> 0,
     fpsFrameCount |-> 0,
     inFlightFence |-> "signaled",
     pending |-> NONE,
     recorded |-> NONE,
     imageLayoutInitialized |-> [i \in Images |-> FALSE],
     oldLayout |-> [i \in Images |-> "none"],
     barriers |-> [i \in Images |-> 0],
     layout |-> [i \in Images |-> "VK_IMAGE_LAYOUT_UNDEFINED"]]

\* updateCamera(dt): the cursor movement since the last call turns the
\* camera (none on the first call after firstMouse was set), the pitch is
\* limited, and the keys held move the position.  The position is kept
\* in the camera's own axes: x along cameraForward, z along flatRight.
updateCamera(a, in) ==
    LET last == IF a.firstMouse THEN in.cursor ELSE a.lastMouse
        dx == in.cursor.x - last.x
        dy == in.cursor.y - last.y
        pitch == a.cameraPitch - dy
        vel == IF "LEFT_CONTROL" \in in.keys THEN SPEED * SPEED_FACTOR ELSE SPEED
        px == (IF "W" \in in.keys THEN vel ELSE 0) - (IF "S" \in in.keys THEN vel ELSE 0)
        pz == (IF "A" \in in.keys THEN vel ELSE 0) - (IF "D" \in in.keys THEN vel ELSE 0)
        py == (IF "SPACE" \in in.keys THEN vel ELSE 0)
                 - (IF in.keys \cap {"SHIFT", "RIGHT_SHIFT"} # {} THEN vel ELSE 0)
    IN  [a EXCEPT !.firstMouse = FALSE,
                  !.lastMouse = in.cursor,
                  !.cameraYaw = a.cameraYaw - dx,
                  !.cameraPitch = Max2(-PITCH_LIMIT, Min2(PITCH_LIMIT, pitch)),
                  !.cameraPos = [x |-> a.cameraPos.x + px,
                                 y |-> a.cameraPos.y + py,
                                 z |-> a.cameraPos.z + pz]]

\* updateCameraBuffer(): the camera is copied to cameraData and uploaded.
updateCameraBuffer(a) ==
    [a EXCEPT !.cameraData =
                  [camPos |-> a.cameraPos, yaw |-> a.cameraYaw, pitch |-> a.cameraPitch]]

\* The Escape check of the main loop.
Unlock(a, in) ==
    IF a.cursorLocked /\ in.key.escape
    THEN [a EXCEPT !.cursorLocked = FALSE, !.inputMode = "GLFW_CURSOR_NORMAL"]
    ELSE a

\* The left-click check of the main loop.
Relock(a, in) ==
    IF ~a.cursorLocked /\ in.key.focused /\ in.key.click
    THEN [a EXCEPT !.cursorLocked = TRUE, !.firstMouse = TRUE,
                   !.inputMode = "GLFW_CURSOR_DISABLED"]
    ELSE a

\* The camera update of the main loop, whatever cursorLocked is.
Camera_Always(a, in) ==
    [updateCameraBuffer(updateCamera(a, in)) EXCEPT !.updated = TRUE]

\* The camera update of the main loop: only with the cursor locked.
Camera(a, in) ==
    IF a.cursorLocked
    THEN [updateCameraBuffer(updateCamera(a, in)) EXCEPT !.updated = TRUE]
    ELSE [a EXCEPT !.updated = FALSE]

\* The frame counter of the window title.
Fps(a) ==
    IF a.fpsTimeAccum + 1 >= FPS_WINDOW
    THEN [a EXCEPT !.fpsTimeAccum = 0, !.fpsFrameCount = 0]
    ELSE [a EXCEPT !.fpsTimeAccum = a.fpsTimeAccum + 1,
                   !.fpsFrameCount = a.fpsFrameCount + 1]

InRange(a) ==
    /\ \A c \in Axes : a.cameraPos[c] \in 0 .. CAM_MAX
    /\ a.cameraYaw \in -CAM_MAX .. CAM_MAX

\* One iteration of the main loop up to the call of drawFrame, which starts
\* with vkWaitForFences.
mainLoop(inputs) ==
    /\ app.at = "loop"
    /\ \E in \in inputs :
          LET a == Fps(Camera(Relock(Unlock(app, in), in), in))
          IN  /\ InRange(a)
              /\ app' = [a EXCEPT !.at = "wait", !.key = in.key, !.recorded = NONE]
    /\ UNCHANGED <<cfg, world, ro, rd, pos, lod, step, pc, h, cell, bounds, branch,
                   travel, iters, prevPos, prevLod, other>>

\* glfwWindowShouldClose(window): the loop ends.
closeWindow ==
    /\ app.at = "loop"
    /\ app' = [app EXCEPT !.at = "closed"]
    /\ UNCHANGED <<cfg, world, ro, rd, pos, lod, step, pc, h, cell, bounds, branch,
                   travel, iters, prevPos, prevLod, other>>

\* recordCommandBuffer that leaves imageLayoutInitialized as it is.
recordCommandBuffer_NoFlag(a, i) ==
    [a EXCEPT !.oldLayout[i] = IF a.imageLayoutInitialized[i]
                               THEN "VK_IMAGE_LAYOUT_PRESENT_SRC_KHR"
                               ELSE "VK_IMAGE_LAYOUT_UNDEFINED",
              !.barriers[i] = Min2(a.barriers[i] + 1, 2),
              !.recorded = i]

\* recordCommandBuffer(cmd, imageIndex): the first barrier declares the old
\* layout by imageLayoutInitialized[imageIndex], which is then set; the
\* buffer ends with the barrier GENERAL -> PRESENT_SRC_KHR.  barriers counts
\* the buffers recorded for the image (2 stands for two or more).
recordCommandBuffer(a, i) ==
    [a EXCEPT !.oldLayout[i] = IF a.imageLayoutInitialized[i]
                               THEN "VK_IMAGE_LAYOUT_PRESENT_SRC_KHR"
                               ELSE "VK_IMAGE_LAYOUT_UNDEFINED",
              !.imageLayoutInitialized[i] = TRUE,
              !.barriers[i] = Min2(a.barriers[i] + 1, 2),
              !.recorded = i]

\* drawFrame(), from the return of vkWaitForFences: the fence is reset, an
\* image is acquired, its command buffer is recorded and submitted with the
\* fence, and the image is presented.  VK_ERROR_OUT_OF_DATE_KHR from the
\* acquisition returns at once; other errors throw.
drawFrame(results, indices) ==
    /\ app.at = "wait"
    /\ app.inFlightFence = "signaled"
    /\ \E acquire \in results, imageIndex \in indices, submit \in results,
          present \in results :
          LET reset == [app EXCEPT !.inFlightFence = "unsignaled"]
              rec == recordCommandBuffer(reset, imageIndex)
          IN  app' =
                  CASE acquire = "VK_ERROR_OUT_OF_DATE_KHR" ->
                           [reset EXCEPT !.at = "loop"]
                    [] acquire = "VK_ERROR" ->
                           [reset EXCEPT !.at = "failed"]
                    [] submit # "VK_SUCCESS" ->
                           [rec EXCEPT !.at = "failed"]
                    [] present = "VK_ERROR" ->
                           [rec EXCEPT !.at = "failed", !.pending = imageIndex]
                    [] OTHER ->
                           [rec EXCEPT !.at = "loop", !.pending = imageIndex]
    /\ UNCHANGED <<cfg, world, ro, rd, pos, lod, step, pc, h, cell, bounds, branch,
                   travel, iters, prevPos, prevLod, other>>

\* The queue executes the submitted command buffer, which leaves the image
\* in PRESENT_SRC_KHR, and signals the fence of the submission.
queueComplete ==
    /\ app.pending # NONE
    /\ app' = [app EXCEPT !.layout[app.pending] = "VK_IMAGE_LAYOUT_PRESENT_SRC_KHR",
                          !.inFlightFence = "signaled",
                          !.pending = NONE]
    /\ UNCHANGED <<cfg, world, ro, rd, pos, lod, step, pc, h, cell, bounds, branch,
                   travel, iters, prevPos, prevLod, other>>

----------------------------------------------------------------------------
\* The state of an invocation of hierarchicalMarch(ro, rd) at the place at:
\* "setup" before the pipeline exists, "march" on entry.
Entry(c, w, ray, at) ==
    /\ cfg = c
    /\ world = w
    /\ ro = ray.ro
    /\ rd = ray.rd
    /\ pos = ray.ro
    /\ lod = c.maxLod
    /\ step = 0
    /\ pc = at
    /\ h = [hit |-> -1, pos |-> Zero3, cell |-> Zero3, distance |-> 0]
    /\ cell = Zero3
    /\ bounds = [min |-> 0, max |-> 0]
    /\ branch = "none"
    /\ travel = 0
    /\ iters = 0
    /\ prevPos = ray.ro
    /\ prevLod = c.maxLod
    /\ other = Locals
    /\ app = AppStart

\* The state in which hierarchicalMarch(ro, rd) starts.
Start(c, w, ray) == Entry(c, w, ray, "march")

Init ==
    \E w \in SmallWorlds, o \in SmallOrigins, d \in Directions :
        Start(SmallConfig, w, Ray(o, d))

Spec == Init /\ [][Next]_vars

\* The documented configuration, with the rays of the scenarios: straight down
\* from (0, 1000, 0) and straight up from (0, 5000, 0), and rays off the cell
\* faces.
ScenarioOrigins ==
    {At(0, 10000, 0), At(0, 50000, 0), At(5, 10005, 5), At(25, 705, 25), At(5, -25, 5)}

ScenarioWorlds == {Sky, Ground(GROUND_SCENARIO), Tie}

ScenarioInit ==
    \E w \in ScenarioWorlds, o \in ScenarioOrigins, d \in {DOWN, UP, DIAG} :
        Start(DocConfig, w, Ray(o, d))

ScenarioSpec == ScenarioInit /\ [][Next]_vars

\* A shader invocation runs its loop to the end.
FairSpec == Spec /\ WF_vars(Next)

\* The shader constants are compiled into the pipeline binary; the host sets
\* the pipeline up and dispatches it.  A configuration of the model with
\* MAX_LOD below zero stands for the invalid ones.
INVALID_MAX_LOD == -1
INVALID_MAX_STEPS == 4

InvalidConfig ==
    [maxLod |-> INVALID_MAX_LOD, maxSteps |-> INVALID_MAX_STEPS,
     maxDistance |-> SMALL_MAX_DISTANCE]

Configs == {SmallConfig, InvalidConfig}

ValidConfig(c) == c.maxLod >= 0 /\ TOTAL_OCTAVES > 0

\* createComputePipeline: the shader module and the pipeline are created from
\* the binary, whatever constants it was compiled with; the driver's failure
\* to create either is the only error.
createComputePipeline ==
    /\ pc = "setup"
    /\ \/ pc' = "march"
       \/ pc' = "failed"
    /\ other' = [other EXCEPT !.pc = pc']
    /\ UNCHANGED <<cfg, world, ro, rd, pos, lod, step, h, cell, bounds, branch, travel,
                   iters, prevPos, prevLod, app>>

\* A ray parameter beyond every MAX_DISTANCE of the model.
FAR_STEP == 2 ^ 20

\* The ray parameters a ddaExit call with an undefined cell size may return.
UndefinedSteps == {NUDGE, FAR_STEP}

\* A loop body with lod < 0: the result of 1 << lod is undefined, and so is
\* every value computed from it (cellSize, cell, bounds).  lod is not 0, so
\* no Hit is returned; the iteration takes the Skip branch with some ray
\* parameter, and ascends or not (never from MAX_LOD), or it takes a branch
\* that lowers lod.
NegativeShift ==
    /\ pc = "march" /\ step < MAX_STEPS /\ lod < 0
    /\ \/ /\ \E t \in UndefinedSteps :
                  pos' = [a \in Axes |-> pos[a] + (rd[a] * t) \div DIR_DEN]
          /\ \E up \in {0, 1} : lod' = IF lod >= MAX_LOD THEN lod ELSE lod + up
       \/ /\ pos' = pos
          /\ lod' = lod - 1
    /\ branch' = "undefined"
    /\ iters' = iters + 1 /\ prevPos' = pos /\ prevLod' = lod
    /\ LoopTail(pos')
    /\ UNCHANGED <<cfg, world, ro, rd, h, cell, bounds, travel, other, app>>

ConfigInit ==
    \E c \in Configs, w \in SmallWorlds, o \in SmallOrigins, d \in Directions :
        Entry(c, w, Ray(o, d), "setup")

ConfigNext ==
    \/ createComputePipeline
    \/ Next
    \/ NegativeShift

\* The host's setup followed by one invocation, under any configuration.
ConfigSpec == ConfigInit /\ [][ConfigNext]_vars

\* Two invocations with the same ray, interleaved in any order.
PairNext ==
    \/ Next
    \/ Switch

PairSpec == Init /\ [][PairNext]_vars

----------------------------------------------------------------------------
(* Properties *)

\* The full-resolution density: the fractal sum of all TOTAL_OCTAVES octaves.
TrueDensity(p) == evaluateOctaves(p, TOTAL_OCTAVES)

\* The points of the cell c of level l at the quarter positions of each axis.
SamplePoints(c, l) ==
    LET offs == {0, CellSize(l) \div 4, CellSize(l) \div 2, 3 * (CellSize(l) \div 4)}
    IN  {[a \in Axes |-> c[a] * CellSize(l) + o[a]] : o \in [Axes -> offs]}

\* The LOD-0 cells around the current position.
NearCells0 ==
    {[a \in Axes |-> CellOf(pos, 0)[a] + o[a]] : o \in [Axes -> {-1, 0, 1}]}

\* C1: bounds soundness.  For the cell the marcher is in, at its level, the
\* interval of computeBounds contains the full-resolution density of every
\* point of the cell (the current position and the quarter points).
C1_BoundsSound ==
    pc = "march" =>
        \A p \in SamplePoints(CurCell, lod) \cup {pos} :
            /\ CurBounds.min <= TrueDensity(p)
            /\ TrueDensity(p) <= CurBounds.max

\* C6: at lod 0 the bound is exact.  For every LOD-0 cell around the position
\* computeBounds(c, 0) has min = max = the full density at the centre of c.
C6_Lod0Exact ==
    \A c \in NearCells0 :
        /\ computeBounds(c, 0).min = computeBounds(c, 0).max
        /\ computeBounds(c, 0).min = TrueDensity(CellCenter(c, 0))

\* C6 witness: a Hit was decided from the bound of a LOD-0 cell alone.
C6_Witness ==
    /\ pc = "done" /\ h.hit = 1 /\ branch = "solid"
    /\ bounds.min = bounds.max
    /\ bounds = computeBounds(h.cell, 0)

\* |p - ro|
Distance(p) == length([a \in Axes |-> p[a] - ro[a]])

\* C2: termination.  Every march ends, with Hit or Miss, after at most
\* MAX_STEPS loop bodies; an iteration that ends with |pos - ro| above
\* MAX_DISTANCE is the last one; a march that ends without a hit returns Miss.
C2_Termination ==
    /\ <>(pc = "done")
    /\ [](iters <= MAX_STEPS)
    /\ [](pc = "done" => h.hit \in {0, 1} /\ (h.hit = 0 => h = Miss))
    /\ [][(iters' = iters + 1 /\ pc' # "done" /\ Distance(pos') > MAX_DISTANCE * UNIT)
              => pc' = "exit"]_vars
    /\ [][pc = "exit" => (pc' = "done" /\ h' = Miss /\ iters' = iters)]_vars

\* C2 witness: a march ended with Miss by the distance test, within the budget.
C2_Witness ==
    /\ pc = "done" /\ h = Miss
    /\ iters < MAX_STEPS
    /\ Distance(pos) > MAX_DISTANCE * UNIT

\* C3: the LOD stays in range.  lod starts at MAX_LOD and is always in
\* 0 .. MAX_LOD; it goes down by one only from lod # 0; it goes up by one only
\* when canAscendLOD holds of the new position, below MAX_LOD.
C3_LodBound ==
    /\ lod = MAX_LOD
    /\ [](0 <= lod /\ lod <= MAX_LOD)
    /\ [][/\ lod' < lod => (lod # 0 /\ lod' = lod - 1)
          /\ lod' > lod => (lod' = lod + 1 /\ lod < MAX_LOD /\ canAscendLOD(pos', lod))]_vars

\* C3 witness: a Skip at MAX_LOD ended at a position that is well inside the
\* next-coarser cell, and lod stayed at MAX_LOD.
C3_Witness ==
    /\ branch = "skip" /\ prevLod = MAX_LOD /\ lod = MAX_LOD
    /\ \A a \in Axes :
           /\ 5 * (pos[a] % CellSize(MAX_LOD + 1)) > CellSize(MAX_LOD + 1)
           /\ 5 * (pos[a] % CellSize(MAX_LOD + 1)) < 4 * CellSize(MAX_LOD + 1)

\* The last iteration called ddaExit.
Stepped == branch = "skip" \/ (branch = "uncertain" /\ prevLod = 0 /\ h.hit # 1)

\* C4: ddaExit leaves the cell.  After an iteration that called ddaExit the
\* position is in another cell (of the size the call was made with) than the
\* one it started in.
C4_ExitLeavesCell == Stepped => CellOf(pos, prevLod) # CellOf(prevPos, prevLod)

\* C5: ddaExit advances strictly forward.  A ddaExit call moves pos along rd
\* by t >= 1e-3; the point at t - 1e-3 is in the closed box of the cell and on
\* one of its faces (to one count); the distance from the origin never
\* decreases and grows in every iteration that moves pos.
C5_Forward ==
    [][/\ Distance(pos') >= Distance(pos)
       /\ pos' # pos => Distance(pos') > Distance(pos)
       /\ travel' # travel =>
            LET t == travel' - travel
                lo == [a \in Axes |-> CellOf(pos, lod)[a] * CellSize(lod)]
                e == [a \in Axes |-> pos[a] + (rd[a] * (t - NUDGE)) \div DIR_DEN]
            IN  /\ t >= NUDGE
                /\ pos' = [a \in Axes |-> pos[a] + (rd[a] * t) \div DIR_DEN]
                /\ pos' # pos
                /\ \A a \in Axes : lo[a] <= e[a] /\ e[a] <= lo[a] + CellSize(lod)
                /\ \E a \in Axes :
                       \/ e[a] - lo[a] <= 1
                       \/ lo[a] + CellSize(lod) - e[a] <= 1]_vars

\* C5 witness: a ddaExit call of a ray with two non-zero direction components
\* took the position further from the origin.
C5_Witness ==
    /\ Stepped /\ rd.x # 0 /\ rd.y # 0
    /\ iters >= 2
    /\ Distance(pos) > Distance(prevPos)

\* C7: a Hit carries hit = 1, the position and the LOD-0 cell of the hitting
\* iteration, and distance = |pos - ro|, which is the sum of the ray parameters
\* of all steps (to the rounding of the steps: two counts for each).
C7_HitRecord ==
    h.hit = 1 =>
        /\ pc = "done"
        /\ lod = 0
        /\ h.pos = pos
        /\ h.cell = CellOf(pos, 0)
        /\ h.distance = Distance(pos)
        /\ h.distance - travel <= 2 * iters + 1
        /\ travel - h.distance <= 2 * iters + 1

\* C7 witness: a Hit after the ray went more than a world unit.
C7_Witness == h.hit = 1 /\ travel > UNIT /\ rd.x # 0 /\ rd.y # 0

\* C8: no Hit beyond the range.  Every iteration starts with
\* |pos - ro| <= MAX_DISTANCE, and every Hit has distance <= MAX_DISTANCE.
C8_HitInRange ==
    /\ pc = "march" => Distance(pos) <= MAX_DISTANCE * UNIT
    /\ h.hit = 1 => h.distance <= MAX_DISTANCE * UNIT

\* C8 witness: a Hit in the far half of the range.
C8_Witness == h.hit = 1 /\ 2 * h.distance > MAX_DISTANCE * UNIT

\* The LOD-0 cells inside the cell c of level l.
SubCells0(c, l) ==
    {[a \in Axes |-> c[a] * (2 ^ l) + o[a]] : o \in [Axes -> 0 .. (2 ^ l) - 1]}

\* The LOD-0 cell c is solid.
Solid0(c) == TrueDensity(CellCenter(c, 0)) > BLOCK_THRESHOLD

\* C9: skipping is safe.  A cell the marcher skipped contains no solid LOD-0
\* cell.
C9_SkipSafe ==
    branch = "skip" => \A c \in SubCells0(cell, prevLod) : ~Solid0(c)

\* C10: vertical descent.  The ray from (0, 1000, 0) straight down, over the
\* world that is empty above height 64 and solid below it, ends with a Hit
\* within one voxel of y = 64, in the topmost solid cell of the column.
C10_VerticalDescent ==
    (/\ world = Ground(GROUND_SCENARIO)
     /\ ro = At(0, 10000, 0) /\ rd = DOWN
     /\ pc = "done")
    => /\ h.hit = 1
       /\ h.pos.y >= (GROUND_SCENARIO - 1) * UNIT
       /\ h.pos.y <= (GROUND_SCENARIO + 1) * UNIT
       /\ h.cell = vec3(0, GROUND_SCENARIO - 1, 0)

\* C11: open sky.  The ray from (0, 5000, 0) straight up, through the world
\* that has no solid cell, ends with Miss, and it ends at a position further
\* than MAX_DISTANCE from its origin.
C11_OpenSky ==
    (/\ world = Sky
     /\ ro = At(0, 50000, 0) /\ rd = UP
     /\ pc = "done")
    => /\ h = Miss
       /\ Distance(pos) > MAX_DISTANCE * UNIT

\* C12: no spurious Hit.  A Hit is returned only for a LOD-0 cell that is
\* solid (its density, the exact value of the cell, is above the threshold),
\* so a ray through empty LOD-0 cells alone ends without a Hit; and every
\* iteration whose cell has bounds.max below the threshold took the Skip
\* branch.
C12_NoSpuriousHit ==
    /\ h.hit = 1 => Solid0(h.cell)
    /\ (iters > 0 /\ bounds.max < BLOCK_THRESHOLD) => branch = "skip"

C14_Total ==
    /\ [](\A a \in Axes : Divisor(rd, a) >= 1)
    /\ [][travel' # travel =>
            LET t == travel' - travel
            IN  /\ t - NUDGE >= 0
                /\ t - NUDGE <= 2 * CellSize(lod)
                /\ \A a \in Axes : Abs(pos'[a] - pos[a]) <= t
                /\ \A a \in Axes : rd[a] = 0 => pos'[a] = pos[a]]_vars

\* C14 witness: a ddaExit call with two zero direction components moved the
\* position across a cell.
C14_Witness ==
    /\ Stepped /\ rd.x = 0 /\ rd.z = 0
    /\ Abs(pos.y - prevPos.y) > UNIT

\* C15: an invalid configuration is rejected at setup.  Under a configuration
\* that is not valid hierarchicalMarch is never entered and no iteration is
\* executed.
C15_InvalidRejected ==
    ~ValidConfig(cfg) => (pc \in {"setup", "failed"} /\ iters = 0)

\* The deviations heightMaxDeviation may return, in world units.
HEIGHT_DEV_MAX == 3

\* terrainHeight of the ground world: its surface height.
terrainHeight == world.h

\* heightBounds(cell.xz, lod) with max_dev = dev.
heightBounds(dev) == [min |-> terrainHeight - dev, max |-> terrainHeight + dev]

\* The cell classification for terrain: above the height bound EMPTY (the
\* Skip branch), below it SOLID, otherwise UNCERTAIN.
HeightClass(c, l, dev) ==
    LET cell_y_min == c.y * (2 ^ l)
        cell_y_max == cell_y_min + 2 ^ l
    IN  IF cell_y_min > heightBounds(dev).max THEN "skip"
        ELSE IF cell_y_max < heightBounds(dev).min THEN "solid"
        ELSE "uncertain"

\* C16: the heightfield bound is tested first.  Over the terrain of the
\* ground world every iteration takes the branch of the heightfield test of
\* its cell: Skip for a cell entirely above [height - maxDeviation,
\* height + maxDeviation], Solid for one entirely below, Uncertain for one
\* that straddles it (for some maxDeviation).
C16_HeightFirst ==
    (world.kind = "ground" /\ iters > 0) =>
        \E dev \in 0 .. HEIGHT_DEV_MAX : branch = HeightClass(cell, prevLod, dev)

\* C17: the three-way branch.  Every iteration computes the bounds of the
\* cell floor(pos / 2^lod) at the current lod and takes exactly one branch:
\* Skip iff bounds.max < BLOCK_THRESHOLD, Solid iff bounds.min >
\* BLOCK_THRESHOLD and not Skip, Uncertain otherwise; a bound that touches
\* the threshold (min <= threshold <= max) is Uncertain, at every lod.
C17_ThreeWay ==
    [][iters' = iters + 1 =>
          /\ cell' = CellOf(pos, lod)
          /\ bounds' = computeBounds(cell', lod)
          /\ branch' \in {"skip", "solid", "uncertain"}
          /\ branch' = "skip" <=> bounds'.max < BLOCK_THRESHOLD
          /\ branch' = "solid" <=>
                 (bounds'.min > BLOCK_THRESHOLD /\ ~(bounds'.max < BLOCK_THRESHOLD))
          /\ (bounds'.min <= BLOCK_THRESHOLD /\ BLOCK_THRESHOLD <= bounds'.max)
                 => branch' = "uncertain"]_vars

\* C17 witness: an iteration whose bound touches the threshold from both
\* sides took the Uncertain branch, after iterations at a coarser lod.
C17_Witness ==
    /\ branch = "uncertain"
    /\ bounds.min = BLOCK_THRESHOLD /\ bounds.max = BLOCK_THRESHOLD
    /\ prevLod = 0 /\ iters > MAX_LOD

\* C18: the Solid branch.  An iteration whose bounds.min is above the
\* threshold takes the Solid branch; at lod 0 it returns the Hit with the
\* current position and cell, and at lod > 0 it lowers lod by exactly one,
\* keeps the position and does not return.
C18_SolidBranch ==
    [][iters' = iters + 1 =>
          /\ computeBounds(CellOf(pos, lod), lod).min > BLOCK_THRESHOLD
                 => branch' = "solid"
          /\ branch' = "solid" =>
                 /\ bounds'.min > BLOCK_THRESHOLD
                 /\ pos' = pos
                 /\ IF lod = 0
                    THEN /\ pc' = "done" /\ lod' = 0
                         /\ h'.hit = 1 /\ h'.pos = pos /\ h'.cell = CellOf(pos, 0)
                    ELSE /\ lod' = lod - 1
                         /\ pc' # "done" /\ h' = h]_vars

\* C18 witness: the Solid branch lowered lod from MAX_LOD, which is two or
\* more levels above the finest, and the march went on.
C18_Witness ==
    /\ branch = "solid" /\ pc = "march"
    /\ prevLod = MAX_LOD /\ prevLod >= 2 /\ lod = prevLod - 1

\* C19: the Uncertain branch.  At lod 0 the iteration decides by the exact
\* LOD-0 cell alone: it returns the Hit if that cell is solid, and otherwise
\* steps with ddaExit across the unit cell and stays at lod 0; at lod > 0 it
\* lowers lod by exactly one.
C19_UncertainBranch ==
    [][(iters' = iters + 1 /\ branch' = "uncertain") =>
          IF lod = 0
          THEN IF Solid0(CellOf(pos, 0))
               THEN pc' = "done" /\ h'.hit = 1 /\ h'.cell = CellOf(pos, 0)
               ELSE /\ pos' = ddaExit(pos, rd, CellOf(pos, 0), UNIT)
                    /\ lod' = 0 /\ pc' # "done"
          ELSE lod' = lod - 1 /\ pos' = pos /\ pc' # "done"]_vars

\* fract(p / 2^(l+1)) is strictly between 0.2 and 0.8 on all three axes.
WellInside(p, l) ==
    \A a \in Axes :
        /\ 10 * (p[a] % CellSize(l + 1)) > 2 * CellSize(l + 1)
        /\ 10 * (p[a] % CellSize(l + 1)) < 8 * CellSize(l + 1)

\* C20: the Skip branch.  A Skip iteration first moves pos to the ddaExit
\* point of the current cell and then raises lod by one exactly when lod is
\* below MAX_LOD and the new position is well inside the next-coarser cell,
\* and else leaves lod as it is; no other branch raises lod.
C20_SkipBranch ==
    [][/\ lod' > lod => (iters' = iters + 1 /\ branch' = "skip")
       /\ (iters' = iters + 1 /\ branch' = "skip") =>
            /\ pos' = ddaExit(pos, rd, CellOf(pos, lod), CellSize(lod))
            /\ lod' = IF lod < MAX_LOD /\ WellInside(pos', lod) THEN lod + 1 ELSE lod]_vars

\* C20 witness: a Skip raised lod from a position that was not well inside
\* the next-coarser cell before the step.
C20_Witness ==
    /\ branch = "skip" /\ lod = prevLod + 1
    /\ ~WellInside(prevPos, prevLod)

\* The last iteration was a Skip that raised lod.
Ascended == branch = "skip" /\ lod = prevLod + 1

\* C21: no oscillation at LOD boundaries.  The iteration after one that
\* raised lod from l to l + 1 does not lower lod back to l.
C21_NoOscillation ==
    [][(Ascended /\ iters' = iters + 1) => ~(lod' = lod - 1)]_vars

\* The sum of the amplitudes of the octaves from .. to - 1, one by one.
RECURSIVE SkippedSum(_, _)
SkippedSum(from, to) ==
    IF from >= to THEN 0 ELSE Amplitude(from) + SkippedSum(from + 1, to)

\* The bounds of cell c at level l when n octaves are evaluated at its centre
\* and the amplitudes of the octaves n .. TOTAL_OCTAVES-1 are the deviation.
BoundsWith(c, l, n) ==
    [min |-> OctaveSum(CellCenter(c, l), 0, n) - SkippedSum(n, TOTAL_OCTAVES),
     max |-> OctaveSum(CellCenter(c, l), 0, n) + SkippedSum(n, TOTAL_OCTAVES)]

OctavesOf(m) ==
    {i \in 0 .. TOTAL_OCTAVES - 1 : m >= 0 /\ (m \div Amplitude(i)) % 2 = 1}

\* The centre value and the deviation of the bounds of the last iteration.
BaseValue == (bounds.max + bounds.min) \div 2
MaxDeviation == (bounds.max - bounds.min) \div 2

\* The noise at the centre of the last cell is s at every octave, so the
\* centre value is s times the mass of the evaluated octaves.
UniformCentre(s) ==
    \A i \in 0 .. TOTAL_OCTAVES - 1 :
        noise3D(CellCenter(cell, prevLod), i) = s

\* C23: octave partition.  In every iteration the octaves in the deviation
\* are the octaves evalOctaves .. TOTAL_OCTAVES-1, the octaves in the centre
\* value are 0 .. evalOctaves-1, and the two sets partition the
\* TOTAL_OCTAVES octaves: none is counted twice and none is left out.
C23_OctavePartition ==
    iters > 0 =>
        LET evalOctaves == Max2(1, TOTAL_OCTAVES - prevLod)
            Skipped == OctavesOf(MaxDeviation)
        IN  /\ Skipped = evalOctaves .. TOTAL_OCTAVES - 1
            /\ MaxDeviation = SkippedSum(evalOctaves, TOTAL_OCTAVES)
            /\ \A s \in {-1, 1} :
                   UniformCentre(s) =>
                       /\ OctavesOf(s * BaseValue) = 0 .. evalOctaves - 1
                       /\ OctavesOf(s * BaseValue) \cup Skipped
                              = 0 .. TOTAL_OCTAVES - 1
                       /\ OctavesOf(s * BaseValue) \cap Skipped = {}
                       /\ s * BaseValue + MaxDeviation
                              = SkippedSum(0, TOTAL_OCTAVES)

\* C23 witness: an iteration with some octaves evaluated and some in the
\* deviation, at a cell centre with the same noise at every octave.
C23_Witness ==
    /\ iters > 0 /\ prevLod \in 1 .. TOTAL_OCTAVES - 1
    /\ UniformCentre(1)
    /\ OctavesOf(BaseValue) = 0 .. TOTAL_OCTAVES - prevLod - 1
    /\ OctavesOf(MaxDeviation) = TOTAL_OCTAVES - prevLod .. TOTAL_OCTAVES - 1

\* The cell of level l + 1 that holds the cell c of level l.
ParentCell(c) == [a \in Axes |-> c[a] \div 2]

\* The step of the last iteration went through the mid-plane of the parent
\* cell on some axis.
CrossedMidPlane ==
    \E a \in Axes :
        /\ CellOf(pos, prevLod)[a] # cell[a]
        /\ CellOf(pos, prevLod)[a] \div 2 = cell[a] \div 2

\* The position after an ascent is in the LOD-(l+1) cell it was in before
\* the step, the parent of the cell that was skipped.
SameParent ==
    /\ CellOf(pos, lod) = CellOf(prevPos, lod)
    /\ CellOf(pos, lod) = ParentCell(cell)

\* C24: a Skip iteration that ascends from lod l to l + 1 leaves the position
\* in the LOD-(l+1) cell it was in before the step, the parent of the cell
\* that was skipped, and it ascends only after a step through the mid-plane
\* of that parent cell.
C24_AscendSameParent == Ascended => (SameParent /\ CrossedMidPlane)

\* An ascent after a step that stayed in the skipped cell.
C24_AscendInPlace == Ascended /\ SameParent /\ CellOf(pos, prevLod) = cell

\* C25: frame of a marcher iteration.  An iteration that descends (Solid or
\* Uncertain at lod > 0) leaves pos unchanged and lowers lod by exactly 1; an
\* iteration that moves pos never lowers lod; and lod changes by at most 1
\* in any single iteration.
C25_Frame ==
    [][iters' = iters + 1 =>
          /\ (branch' \in {"solid", "uncertain"} /\ lod > 0) =>
                 (pos' = pos /\ lod' = lod - 1)
          /\ pos' # pos => lod' >= lod
          /\ lod' - lod \in {-1, 0, 1}]_vars

\* C25 witness: the state after a descending iteration at lod > 0, one level
\* down at the same position, on a ray that has moved before.
C25_Witness ==
    /\ branch \in {"solid", "uncertain"} /\ prevLod > 0
    /\ lod = prevLod - 1 /\ pos = prevPos
    /\ pos # ro

\* A configuration whose step budget is spent by the descents from MAX_LOD.
StarvedConfig ==
    [maxLod |-> SMALL_MAX_LOD, maxSteps |-> SMALL_MAX_LOD,
     maxDistance |-> SMALL_MAX_DISTANCE]

BudgetInit ==
    \E c \in {SmallConfig, StarvedConfig}, w \in SmallWorlds,
       o \in SmallOrigins, d \in Directions :
        Start(c, w, Ray(o, d))

BudgetSpec == BudgetInit /\ [][Next]_vars

\* C26: a Hit is returned only from an iteration in which lod = 0; no Hit is
\* returned during the first MAX_LOD iterations; and with
\* MAX_STEPS <= MAX_LOD every ray yields Miss.
C26_HitAtLodZero ==
    /\ h.hit = 1 => (prevLod = 0 /\ lod = 0 /\ iters > MAX_LOD)
    /\ (MAX_STEPS <= MAX_LOD /\ pc = "done") => h = Miss

\* C26 witness: a ray that went down to lod 0 in MAX_LOD iterations and
\* returned Miss because the step budget was MAX_LOD.
C26_Witness ==
    /\ MAX_STEPS <= MAX_LOD /\ pc = "done" /\ h = Miss
    /\ iters = MAX_LOD /\ lod = 0

\* A Hit in iteration MAX_LOD + 1, the first that can return one.
C26_EarliestHit == h.hit = 1 /\ iters = MAX_LOD + 1

\* C27: at lod 0 the bound has min = max, and an iteration at lod 0 takes the
\* Uncertain branch only when the centre value of its cell equals
\* BLOCK_THRESHOLD exactly; at every other LOD-0 cell the iteration returns
\* the Hit or skips by computeBounds alone.
C27_Lod0Uncertain ==
    (iters > 0 /\ prevLod = 0) =>
        LET centre == evaluateOctaves(CellCenter(cell, 0), TOTAL_OCTAVES)
        IN  /\ bounds.min = bounds.max
            /\ bounds.min = centre
            /\ branch = "uncertain" <=> centre = BLOCK_THRESHOLD
            /\ centre > BLOCK_THRESHOLD => (branch = "solid" /\ h.hit = 1)
            /\ centre < BLOCK_THRESHOLD => (branch = "skip" /\ h.hit # 1)

\* C27 witness: an Uncertain iteration at lod 0, after which the ray went on.
C27_Witness ==
    /\ iters > 0 /\ prevLod = 0 /\ branch = "uncertain"
    /\ bounds.min = BLOCK_THRESHOLD /\ bounds.max = BLOCK_THRESHOLD
    /\ pos # prevPos

\* A LOD-0 cell below the threshold, skipped.
C27_SkipAtLod0 ==
    /\ iters > 0 /\ prevLod = 0 /\ branch = "skip"
    /\ bounds.max < BLOCK_THRESHOLD /\ pos # prevPos

----------------------------------------------------------------------------
(* The main loop of the host *)

\* The application alone; the shader invocation of the state does not run.
AppInit == Start(SmallConfig, Sky, Ray(At(0, 90, 0), DOWN))

\* Frames with any result of acquisition, submission and presentation, for a
\* user who leaves mouse and movement keys alone.
FrameNext ==
    \/ mainLoop(QuietInputs)
    \/ drawFrame(Results, Images)
    \/ queueComplete
    \/ closeWindow

FrameSpec == AppInit /\ [][FrameNext]_vars

\* Any input, with frames that succeed on the first swapchain image.
InputNext ==
    \/ mainLoop(Inputs)
    \/ drawFrame({"VK_SUCCESS"}, {0})
    \/ queueComplete
    \/ closeWindow

InputSpec == AppInit /\ [][InputNext]_vars

\* C28: frame-fence protocol.  At the start of every drawFrame the fence is
\* signalled or a submission that will signal it is pending, so that
\* vkWaitForFences returns, on every path through the earlier drawFrame
\* calls, the early return on VK_ERROR_OUT_OF_DATE_KHR included.
C28_FenceProtocol ==
    app.at = "wait" => (app.inFlightFence = "signaled" \/ app.pending # NONE)

\* The main thread in vkWaitForFences on a fence that nothing will signal.
C28_Blocked ==
    app.at = "wait" /\ app.inFlightFence = "unsignaled" /\ app.pending = NONE

\* C29: swapchain image layout tracking.  For every image i, the first
\* barrier recorded for i declares oldLayout UNDEFINED and every later one
\* PRESENT_SRC_KHR; the declared oldLayout is the layout the image was left
\* in; an executed command buffer leaves the image in PRESENT_SRC_KHR; and
\* imageLayoutInitialized[i] changes only to TRUE and only when a command
\* buffer for i is recorded.
C29_LayoutTracking ==
    [][\A i \in Images :
          /\ (app.at = "wait" /\ app'.recorded = i) =>
                 /\ app'.oldLayout[i] = IF app.barriers[i] = 0
                                         THEN "VK_IMAGE_LAYOUT_UNDEFINED"
                                         ELSE "VK_IMAGE_LAYOUT_PRESENT_SRC_KHR"
                 /\ app'.oldLayout[i] = app.layout[i]
                 /\ app'.imageLayoutInitialized[i]
          /\ (app.pending = i /\ app'.pending = NONE) =>
                 app'.layout[i] = "VK_IMAGE_LAYOUT_PRESENT_SRC_KHR"
          /\ app'.imageLayoutInitialized[i] # app.imageLayoutInitialized[i] =>
                 /\ app'.imageLayoutInitialized[i]
                 /\ app.at = "wait" /\ app'.recorded = i]_vars

\* C29 witness: an image in its second or later frame, declared and left in
\* PRESENT_SRC_KHR, next to an image whose first frame is recorded and not
\* yet executed.
C29_Witness ==
    \E i, j \in Images :
        /\ app.barriers[i] = 2
        /\ app.oldLayout[i] = "VK_IMAGE_LAYOUT_PRESENT_SRC_KHR"
        /\ app.layout[i] = "VK_IMAGE_LAYOUT_PRESENT_SRC_KHR"
        /\ app.barriers[j] = 1 /\ app.pending = j
        /\ app.oldLayout[j] = "VK_IMAGE_LAYOUT_UNDEFINED"
        /\ app.layout[j] = "VK_IMAGE_LAYOUT_UNDEFINED"

\* The camera and the uploaded camera data.
CameraState(a) == <<a.cameraPos, a.cameraYaw, a.cameraPitch, a.cameraData>>

\* C30: cursor-lock state machine.  cursorLocked starts true; in a main-loop
\* iteration it becomes false only when Escape is pressed (while locked) and
\* true only on a left click while the window is focused, which sets
\* firstMouse so that the camera update of the iteration ignores the jump
\* of the cursor; and an iteration in which cursorLocked is false after the
\* checks calls neither updateCamera nor updateCameraBuffer: camera
\* position, yaw, pitch and the uploaded camera data stay unchanged.
C30_CursorLock ==
    /\ app.cursorLocked
    /\ [][(app.at = "loop" /\ app'.at = "wait") =>
             /\ (app.cursorLocked /\ ~app'.cursorLocked) => app'.key.escape
             /\ (~app.cursorLocked /\ app'.cursorLocked) =>
                    /\ app'.key.focused /\ app'.key.click
                    /\ app'.inputMode = "GLFW_CURSOR_DISABLED"
                    /\ app'.updated
                    /\ app'.cameraYaw = app.cameraYaw
                    /\ app'.cameraPitch = app.cameraPitch
                    /\ ~app'.firstMouse
             /\ ~app'.cursorLocked =>
                    /\ ~app'.updated
                    /\ CameraState(app') = CameraState(app)
                    /\ app'.firstMouse = app.firstMouse
                    /\ app'.lastMouse = app.lastMouse
                    /\ app'.inputMode = "GLFW_CURSOR_NORMAL"]_vars

\* C30 witness: an iteration with the cursor unlocked has left alone a camera
\* that was moved and turned before, while a movement key was held.
C30_Witness ==
    /\ app.at = "wait" /\ ~app.cursorLocked /\ ~app.updated
    /\ ~app.key.escape
    /\ app.cameraPos # AppStart.cameraPos /\ app.cameraYaw # 0
    /\ app.cameraData.camPos = app.cameraPos

====
